---- MODULE Spec2Model ----
(***************************************************************************)
(* Model of emily-chess: the Knowledge graph (emily-cli/src/knowledge.rs), *)
(* the application of an engine analysis (emily-cli/src/rev/engine.rs),    *)
(* the Dispatcher select loop (emily-cli/src/rev/dispatcher.rs) and the    *)
(* InfoStream of a search (emily-cli/src/uci/proto.rs).                    *)
(*                                                                         *)
(* Rust vectors are 0-based, TLA+ sequences 1-based: a Rust index i into   *)
(* a vector is element i + 1 of the sequence that models it.  Indices that *)
(* the program stores (position indices, variation indices, main, hm) keep *)
(* their 0-based Rust values.                                              *)
(***************************************************************************)
EXTENDS Integers, Sequences, FiniteSets, TLC

(***************************************************************************)
(* Bounds of the model.                                                    *)
(***************************************************************************)
\* Largest number of entries of Knowledge::variations explored.
MaxVariations == 2
\* Largest position index update_eval is called on.
MaxEvalIdx == 0
\* Number of processors handed to DispatcherBuilder::with.
NumProcessors == 2
\* Capacity of a bounded position channel (mpsc::channel::<Chess>(10)).
ChannelCapacity == 10
\* Largest number of positions sent to one channel by the fan-out model.
MaxPending == 11
\* Largest number of unread lines on the engine's stdout.
MaxLines == 3
\* Scores compared: Cp(n) and Mate(n) for n in -MaxScore..MaxScore.
MaxScore == 2
\* Largest number of items in the first schedule handed to a processor.
MaxSeeds == 2
\* Centipawn values written into comments: -MaxCp..MaxCp.
MaxCp == 120
\* Largest number of moves the Knowledge written as PGN keeps per position.
MaxMoves == 3
\* Largest number of tokens of an info line before its string section.
MaxTokens == 5

(***************************************************************************)
(* The external chess library (shakmaty), reduced to a small position      *)
(* graph.  A position is an opaque value with equality; Play is partial.   *)
(*                                                                         *)
(*          R -a-> A    R -b-> B    A -a-> R    A -b-> T    B -a-> T       *)
(*                                                                         *)
(* R <-> A is a cycle (repetition), R-a-b and R-b-a transpose into T, T is *)
(* a checkmate (White wins) and has no legal move; move b is illegal in B. *)
(***************************************************************************)
None == "None"
Illegal == "Illegal"
Fens == {"R", "A", "B", "T"}
Moves == {"a", "b"}

\* Position::play: the position after a legal move, Illegal otherwise.
Play(fen, mov) ==
    CASE fen = "R" /\ mov = "a" -> "A"
      [] fen = "R" /\ mov = "b" -> "B"
      [] fen = "A" /\ mov = "a" -> "R"
      [] fen = "A" /\ mov = "b" -> "T"
      [] fen = "B" /\ mov = "a" -> "T"
      [] OTHER -> Illegal

\* Position::outcome: the intrinsic outcome of a position (checkmate here).
Outcome(fen) == IF fen = "T" THEN "Decisive(White)" ELSE None

(***************************************************************************)
(* State.                                                                  *)
(***************************************************************************)
VARIABLES
    positions,   \* Knowledge::positions: sequence of PosInfo [pos, eval]
    index,       \* Knowledge::index: map from interned positions to their index
    variations,  \* Knowledge::variations: sequence of Variation
    main,        \* Knowledge::main
    ret,         \* the last operation called and what it returned
    pc,          \* where Dispatcher::dispatch is: "built", "loop" or "done"
    chan,        \* per processor: the positions queued in its channel
    total,       \* per processor: ProcessorMeta::total
    completed,   \* per processor: ProcessorMeta::completed
    pstate,      \* per processor: which future holds its ProcessorItem
    cur,         \* per processor: the position its process future works on
    evaluated,   \* the positions whose PosInfo has an evaluation
    hb,          \* TRUE when the last step emitted a heartbeat record
    out,         \* engine stdout: the lines written and not yet read
    best,        \* InfoStream::best
    iret,        \* what the last call on the InfoStream returned
    queue,       \* EngineProcessor::queue: the Enqueued items not yet processed
    results,     \* EngineProcessor::results: the EngineAnalysis not yet applied
    sched,       \* the Vec<Scheduled> the caller of the processor holds
    stdin,       \* the commands written to the engine's stdin since new_game
    task,        \* where the processor is, and the locals of Engine::process
    busy,        \* engine process: searches started and not yet answered
    pgn          \* the Pgn being built and written, its work stack and its text

kvars == <<positions, index, variations, main, ret>>
dvars == <<pc, chan, total, completed, pstate, cur, evaluated, hb>>
svars == <<out, best, iret>>
evars == <<queue, results, sched, stdin, task, busy>>
gvars == <<pgn>>
vars == <<positions, index, variations, main, ret,
          pc, chan, total, completed, pstate, cur, evaluated, hb,
          out, best, iret,
          queue, results, sched, stdin, task, busy, pgn>>

\* Vec::get / slice::get with a 0-based index: the element, or None.
Get(seq, i) == IF i >= 0 /\ i < Len(seq) THEN seq[i + 1] ELSE None

\* The last element of a non-empty sequence.
Last(seq) == seq[Len(seq)]

\* The position stored at a 0-based position index.
PosAt(idx) == positions[idx + 1].pos

\* Option<Score>: no evaluation, or Some(score).
NoEval == <<>>
Some(x) == <<x>>

\* Score::Cp(n), Score::Mate(n)
Cp(n) == [tag |-> "Cp", n |-> n]
Mate(n) == [tag |-> "Mate", n |-> n]

\* Variation::new
VariationNew(outcome) == [moves |-> <<>>, positions |-> <<0>>, outcome |-> outcome]

\* PosInfo::new
PosInfoNew(pos) == [pos |-> pos, eval |-> NoEval]

\* Repetition with > 3 for >= 3.
RepetitionOffByOne(variation) ==
    LET lastidx == IF Len(variation.positions) > 0
                   THEN variation.positions[Len(variation.positions)]
                   ELSE 0
    IN  Cardinality({i \in 1..Len(variation.positions) :
                        variation.positions[i] = lastidx}) > 3

\* Variation::repetition: the last position index occurs at least 3 times.
Repetition(variation) ==
    LET lastidx == IF Len(variation.positions) > 0
                   THEN variation.positions[Len(variation.positions)]
                   ELSE 0
    IN  Cardinality({i \in 1..Len(variation.positions) :
                        variation.positions[i] = lastidx}) >= 3

\* Knowledge::new(root)
KnowledgeNew(root) ==
    /\ index = [f \in {root} |-> 0]
    /\ positions = <<PosInfoNew(root)>>
    /\ variations = <<VariationNew(Outcome(root))>>
    /\ main = 0

\* Roots the knowledge base is created with: an ordinary and a terminal one.
Roots == {"R", "T"}

\* Processor indices (ProcessorItem::idx).
Procs == 0..(NumProcessors - 1)

\* DispatcherBuilder::build: a channel and zeroed counters per processor.
DispatcherBuild ==
    /\ pc = "built"
    /\ chan = [p \in Procs |-> <<>>]
    /\ total = [p \in Procs |-> 0]
    /\ completed = [p \in Procs |-> 0]
    /\ pstate = [p \in Procs |-> "idle"]
    /\ cur = [p \in Procs |-> None]
    /\ evaluated = {}
    /\ hb = FALSE

\* Protocol::go: the InfoStream it returns; nothing read yet.
Go ==
    /\ out = <<>>
    /\ best = None
    /\ iret = [op |-> "go"]

\* Scheduled::new
ScheduledNew(variation, hm) == [variation |-> variation, hm |-> hm]

\* Engine::process not running: no item taken, no move and no eval yet.
TaskAt(st) == [st |-> st, item |-> <<>>, mov |-> <<>>, eval |-> <<>>]

\* Engine::new_game: the EngineProcessor with an empty queue and no results,
\* on an engine that is not searching; its caller holds no schedule yet.
NewGame ==
    /\ queue = <<>>
    /\ results = <<>>
    /\ sched = <<>>
    /\ stdin = <<>>
    /\ task = TaskAt("new")
    /\ busy = 0

\* No Pgn has been built.
NoPgn ==
    [phase |-> "none", root |-> None, outcome |-> None, data |-> <<>>,
     stack |-> <<>>, text |-> <<>>]

Init ==
    /\ \E root \in Roots : KnowledgeNew(root)
    /\ ret = [op |-> "new"]
    /\ DispatcherBuild
    /\ Go
    /\ NewGame
    /\ pgn = NoPgn

\* Result<(usize, &Variation, &mut PosInfo)> of add_move: the variation index
\* and the index of the returned position, or the error.
Ok(vidx, posidx) ==
    [op |-> "add_move", err |-> None, vidx |-> vidx, posidx |-> posidx]
Err(msg) == [op |-> "add_move", err |-> msg]

\* The first ensure! carrying the message of the second one.
ErrAfterLastMixedUp == "Extending variation beyond game conclusion"

ErrAfterLast == "Extending variation after its last move"
ErrConclusion == "Extending variation beyond game conclusion"
ErrPlay == "illegal move"

\* add_move, first ensure!: hm is not past the end of the variation.
LenGuard(variation, hm) == Len(variation.moves) >= hm

\* add_move: "this variation includes the move that is being added".
AlreadyIncluded(variation, hm, mov) == Get(variation.moves, hm + 1) = mov

\* add_move: the position index returned for an already included move.
IncludedPosIdx(variation, hm) == variation.positions[(hm + 2) + 1]

\* ConclusionGuard with >= for >.
ConclusionGuardOffByOne(variation, hm) ==
    Len(variation.moves) >= hm \/ variation.outcome = None

\* add_move, second ensure!: a concluded variation is not extended at its end.
ConclusionGuard(variation, hm) ==
    Len(variation.moves) > hm \/ variation.outcome = None

\* BeforeIdx taking the last position of the variation instead of the one at hm.
BeforeIdxLast(variation, hm) == variation.positions[Len(variation.positions)]

\* add_move: index of the position the move is played on.
BeforeIdx(variation, hm) == variation.positions[hm + 1]

\* AfterIdx without the lookup: every successor is taken for a new position.
AfterIdxNoDedup(afterfen) == Len(positions)

\* add_move: index.entry(afterfen).or_insert(positions.len()), the value.
AfterIdx(afterfen) ==
    IF afterfen \in DOMAIN index THEN index[afterfen] ELSE Len(positions)

\* add_move: index.entry(afterfen).or_insert(positions.len()), the map.
IndexAfter(afterfen) ==
    IF afterfen \in DOMAIN index
    THEN index
    ELSE [f \in DOMAIN index \cup {afterfen} |->
            IF f = afterfen THEN Len(positions) ELSE index[f]]

\* add_move: the new position is pushed when its index is positions.len().
PositionsAfter(afterfen, afteridx) ==
    IF afteridx = Len(positions)
    THEN Append(positions, PosInfoNew(afterfen))
    ELSE positions

\* InPlace never true: every appended move branches.
InPlaceNever(variation, hm) == FALSE

\* add_move: whether the variation is extended in place (else it is branched).
InPlace(variation, hm) == Len(variation.moves) = hm

\* Branch copying positions[..hm] instead of positions[..=hm].
BranchShortPositions(variation, hm) ==
    [moves |-> SubSeq(variation.moves, 1, hm),
     positions |-> SubSeq(variation.positions, 1, hm),
     outcome |-> None]

\* add_move: the branched variation, before the move is pushed.
Branch(variation, hm) ==
    [moves |-> SubSeq(variation.moves, 1, hm),
     positions |-> SubSeq(variation.positions, 1, hm + 1),
     outcome |-> None]

\* add_move: outcome of the extended variation.
NewOutcome(outcome, variation) ==
    IF outcome # None THEN outcome
    ELSE IF Repetition(variation) THEN "Draw"
    ELSE None

\* Extend overwriting the last move of a variation instead of pushing.
ExtendOverwriting(variation, mov, afteridx, outcome) ==
    LET n == Len(variation.moves)
        pushed == IF n = 0
                  THEN [variation EXCEPT !.moves = Append(@, mov),
                                         !.positions = Append(@, afteridx)]
                  ELSE [variation EXCEPT !.moves[n] = mov,
                                         !.positions[n + 1] = afteridx]
    IN  [pushed EXCEPT !.outcome = NewOutcome(outcome, pushed)]

\* add_move: the variation with the move and its position pushed, and its
\* outcome recomputed.
Extend(variation, mov, afteridx, outcome) ==
    LET pushed == [variation EXCEPT !.moves = Append(@, mov),
                                    !.positions = Append(@, afteridx)]
    IN  [pushed EXCEPT !.outcome = NewOutcome(outcome, pushed)]

\* add_move with the second ensure! moved after the successor was interned:
\* a refused extension leaves the new position behind.
AddMoveResultLateGuard(vidx, hm, mov) ==
    LET variation == variations[vidx + 1]
        unchanged(r) == [ret |-> r, positions |-> positions, index |-> index,
                         variations |-> variations]
    IN
    IF ~LenGuard(variation, hm) THEN unchanged(Err(ErrAfterLast))
    ELSE IF AlreadyIncluded(variation, hm, mov)
         THEN unchanged(Ok(vidx, IncludedPosIdx(variation, hm)))
    ELSE LET beforeidx == BeforeIdx(variation, hm)
             beforefen == positions[beforeidx + 1].pos
             afterfen == Play(beforefen, mov)
         IN  IF afterfen = Illegal THEN unchanged(Err(ErrPlay))
             ELSE LET outcome == Outcome(afterfen)
                      afteridx == AfterIdx(afterfen)
                      newvidx == IF InPlace(variation, hm) THEN vidx
                                 ELSE Len(variations)
                      base == IF InPlace(variation, hm) THEN variation
                              ELSE Branch(variation, hm)
                      extended == Extend(base, mov, afteridx, outcome)
                  IN  IF ~ConclusionGuard(variation, hm)
                      THEN [ret |-> Err(ErrConclusion),
                            positions |-> PositionsAfter(afterfen, afteridx),
                            index |-> IndexAfter(afterfen),
                            variations |-> variations]
                      ELSE [ret |-> Ok(newvidx, afteridx),
                            positions |-> PositionsAfter(afterfen, afteridx),
                            index |-> IndexAfter(afterfen),
                            variations |->
                                IF InPlace(variation, hm)
                                THEN [variations EXCEPT ![vidx + 1] = extended]
                                ELSE Append(variations, extended)]

\* Knowledge::add_move(vidx, hm, mov): what it returns and the fields of the
\* knowledge after it.  vidx is a valid variation index (the code panics on
\* any other).
AddMoveResult(vidx, hm, mov) ==
    LET variation == variations[vidx + 1]
        unchanged(r) == [ret |-> r, positions |-> positions, index |-> index,
                         variations |-> variations]
    IN
    IF ~LenGuard(variation, hm) THEN unchanged(Err(ErrAfterLast))
    ELSE IF AlreadyIncluded(variation, hm, mov)
         THEN unchanged(Ok(vidx, IncludedPosIdx(variation, hm)))
    ELSE IF ~ConclusionGuard(variation, hm) THEN unchanged(Err(ErrConclusion))
    ELSE LET beforeidx == BeforeIdx(variation, hm)
             beforefen == positions[beforeidx + 1].pos
             afterfen == Play(beforefen, mov)
         IN  IF afterfen = Illegal THEN unchanged(Err(ErrPlay))
             ELSE LET outcome == Outcome(afterfen)
                      afteridx == AfterIdx(afterfen)
                      newvidx == IF InPlace(variation, hm) THEN vidx
                                 ELSE Len(variations)
                      base == IF InPlace(variation, hm) THEN variation
                              ELSE Branch(variation, hm)
                      extended == Extend(base, mov, afteridx, outcome)
                  IN  [ret |-> Ok(newvidx, afteridx),
                       positions |-> PositionsAfter(afterfen, afteridx),
                       index |-> IndexAfter(afterfen),
                       variations |->
                           IF InPlace(variation, hm)
                           THEN [variations EXCEPT ![vidx + 1] = extended]
                           ELSE Append(variations, extended)]

\* A call of Knowledge::add_move(vidx, hm, mov) on its own.
AddMove(vidx, hm, mov) ==
    LET res == AddMoveResult(vidx, hm, mov) IN
    /\ Len(res.variations) <= MaxVariations
    /\ positions' = res.positions
    /\ index' = res.index
    /\ variations' = res.variations
    /\ ret' = res.ret
    /\ UNCHANGED main
    /\ UNCHANGED <<dvars, svars, evars, gvars>>

\* Scores used by update_eval in the model.
EvalSamples == {Cp(35)}

\* PosInfo::update_eval on the position with index idx.
UpdateEval(idx, eval) ==
    /\ idx <= MaxEvalIdx
    /\ positions' = [positions EXCEPT ![idx + 1].eval = Some(eval)]
    /\ ret' = [op |-> "update_eval"]
    /\ UNCHANGED <<index, variations, main>>
    /\ UNCHANGED <<dvars, svars, evars, gvars>>

\* UpdateMainlineGuard without the test of `from`.
UpdateMainlineGuardAnyFrom(from, to) == to < Len(variations)

\* UpdateMainlineGuard without the range check on `to`.
UpdateMainlineGuardNoRange(from, to) == from = main

\* Knowledge::update_mainline: the condition under which main is replaced.
UpdateMainlineGuard(from, to) == from = main /\ to < Len(variations)

\* Knowledge::update_mainline(from, to)
UpdateMainline(from, to) ==
    /\ main' = IF UpdateMainlineGuard(from, to) THEN to ELSE main
    /\ ret' = [op |-> "update_mainline"]
    /\ UNCHANGED <<positions, index, variations>>
    /\ UNCHANGED <<dvars, svars, evars, gvars>>

Next ==
    \/ \E vidx \in 0..(Len(variations) - 1), mov \in Moves :
          \E hm \in 0..(Len(variations[vidx + 1].moves) + 1) : AddMove(vidx, hm, mov)
    \/ \E idx \in 0..(Len(positions) - 1), eval \in EvalSamples : UpdateEval(idx, eval)
    \/ \E from \in 0..Len(variations), to \in 0..Len(variations) : UpdateMainline(from, to)

Spec == Init /\ [][Next]_vars

(***************************************************************************)
(* Score and its order (uci/proto.rs).                                     *)
(***************************************************************************)
Less == "Less"
Equal == "Equal"
Greater == "Greater"

\* Ord::cmp of the integers.
IntCmp(n, m) == IF n < m THEN Less ELSE IF n = m THEN Equal ELSE Greater

\* Ordering::reverse
Reverse(ord) == IF ord = Less THEN Greater ELSE IF ord = Greater THEN Less ELSE Equal

\* <Score as Ord>::cmp, the arms of the match in their order.
Cmp(self, other) ==
    LET n == self.n
        m == other.n
    IN
    IF self.tag = "Cp" /\ other.tag = "Cp" THEN IntCmp(n, m)
    ELSE IF self.tag = "Mate" /\ other.tag = "Cp" /\ n >= 0 THEN Greater
    ELSE IF self.tag = "Cp" /\ other.tag = "Mate" /\ m >= 0 THEN Less
    ELSE IF self.tag = "Mate" /\ other.tag = "Cp" THEN Less
    ELSE IF self.tag = "Cp" /\ other.tag = "Mate" THEN Greater
    ELSE IF n >= 0 /\ m < 1 THEN Greater
    ELSE IF n < 1 /\ m >= 0 THEN Greater
    ELSE IF n >= 0 /\ m >= 0 THEN IntCmp(m, n)
    ELSE IntCmp(n, m)

\* The scores of the ordering example, and all scores of small magnitude.
SampleScores ==
    {Mate(1), Mate(5), Cp(9999), Cp(0), Cp(-9999), Mate(-5), Mate(-1)}
Scores ==
    SampleScores \cup {Cp(n) : n \in -MaxScore..MaxScore}
                 \cup {Mate(n) : n \in -MaxScore..MaxScore}

\* A call of Score::cmp.
Compare(a, b) ==
    /\ ret' = [op |-> "cmp", a |-> a, b |-> b, ord |-> Cmp(a, b)]
    /\ UNCHANGED <<positions, index, variations, main>>
    /\ UNCHANGED <<dvars, svars, evars, gvars>>

\* The least value of the integer type of a score: i16 for Cp, i8 for Mate.
MinOf(score) == IF score.tag = "Cp" THEN -32768 ELSE -128

\* Score::rev as a build without overflow checks computes it: the negation
\* on i16 / i8 wraps at the least value.
Rev(score) ==
    [tag |-> score.tag,
     n |-> IF score.n = MinOf(score) THEN MinOf(score) ELSE -score.n]

\* What a call of Score::rev can do: return Some(score), or panic (None)
\* where the negation overflows and the build checks overflow.
RevOutcomes(score) ==
    {<<Rev(score)>>} \cup (IF score.n = MinOf(score) THEN {<<>>} ELSE {})

\* The scores rev is called on: those compared and the ends of the ranges.
RevScores == Scores \cup {Cp(-32768), Cp(32767), Mate(-128), Mate(127)}

\* A call of Score::rev on a, and on its result where it returned one.
Negate(a) ==
    /\ \E r \in RevOutcomes(a) :
          \E rr \in (IF r = <<>> THEN {<<>>} ELSE RevOutcomes(r[1])) :
             ret' = [op |-> "rev", a |-> a, res |-> r, back |-> rr]
    /\ UNCHANGED <<positions, index, variations, main>>
    /\ UNCHANGED <<dvars, svars, evars, gvars>>

\* i16 division and remainder: the quotient is truncated towards zero and
\* the remainder has the sign of the dividend.
DivT(n, d) == IF n >= 0 THEN n \div d ELSE 0 - ((0 - n) \div d)
RemT(n, d) == n - d * DivT(n, d)

\* i16::abs in a build without overflow checks: the least value is kept.
Abs16(n) == IF n = -32768 THEN n ELSE IF n < 0 THEN 0 - n ELSE n

\* The number of decimal digits of a natural number.
RECURSIVE Digits(_)
Digits(n) == IF n < 10 THEN 1 ELSE 1 + Digits(n \div 10)

\* An integer written with `{}`: a minus sign if it is negative, then its
\* digits with no padding.
Fmt(x) ==
    LET abs == IF x < 0 THEN 0 - x ELSE x IN
    [neg |-> x < 0, abs |-> abs, len |-> Digits(abs)]

\* <Score as Display>::fmt: "{h}.{l}" for Cp, "#{m}" for Mate.  A text is
\* the numbers written around its punctuation.
Display(score) ==
    IF score.tag = "Cp"
    THEN [mark |-> ".", int |-> Fmt(DivT(score.n, 100)),
          frac |-> Fmt(RemT(Abs16(score.n), 100))]
    ELSE [mark |-> "#", int |-> Fmt(score.n), frac |-> Fmt(0)]

\* What a call of fmt can do: write Some(text), or panic (None) where
\* abs overflows and the build checks overflow.
DisplayOutcomes(score) ==
    {<<Display(score)>>}
        \cup (IF score.tag = "Cp" /\ score.n = -32768 THEN {<<>>} ELSE {})

\* The scores written into comments: the centipawn values around zero and
\* the ends of the ranges, and the mates.
ShownScores ==
    {Cp(n) : n \in (0 - MaxCp)..MaxCp} \cup RevScores

\* Pgn::write_comment writing "Eval: " and the score a.
WriteEval(a) ==
    /\ \E t \in DisplayOutcomes(a) : ret' = [op |-> "fmt", a |-> a, text |-> t]
    /\ UNCHANGED <<positions, index, variations, main>>
    /\ UNCHANGED <<dvars, svars, evars, gvars>>

SNext ==
    \/ \E a \in Scores, b \in Scores : Compare(a, b)
    \/ \E a \in RevScores : Negate(a)
    \/ \E a \in ShownScores : WriteEval(a)

SSpec == Init /\ [][SNext]_vars

(***************************************************************************)
(* Applying an engine analysis to the knowledge (rev/engine.rs).           *)
(***************************************************************************)
\* UciMove::to_move failing: the engine's move is not legal in the position.
ErrToMove == "illegal uci move"

\* Result<Scheduled> of EngineAnalysis::apply.
Scheduled(vidx, hm) == [op |-> "apply", err |-> None, vidx |-> vidx, hm |-> hm]
ApplyErr(msg) == [op |-> "apply", err |-> msg]

\* EngineAnalysis::apply for an analysis of (variation vidx, halfmove hm)
\* with evaluation eval and move mov.  variation_hm_mut indexes without
\* checks, so vidx and hm are in range.
Apply(vidx, hm, eval, mov) ==
    LET variation == variations[vidx + 1]
        posidx == variation.positions[hm + 1]
        evald == [positions EXCEPT ![posidx + 1].eval = Some(eval)]
        res == AddMoveResult(vidx, hm, mov)
    IN
    /\ IF Play(PosAt(posidx), mov) = Illegal THEN
            /\ positions' = evald
            /\ ret' = ApplyErr(ErrToMove)
            /\ UNCHANGED <<index, variations, main>>
       ELSE IF res.ret.err # None THEN
            /\ positions' = evald
            /\ ret' = ApplyErr(res.ret.err)
            /\ UNCHANGED <<index, variations, main>>
       ELSE /\ Len(res.variations) <= MaxVariations
            /\ positions' = [res.positions EXCEPT ![posidx + 1].eval = Some(eval)]
            /\ index' = res.index
            /\ variations' = res.variations
            \* update_mainline(vidx, idx) on the knowledge after add_move
            /\ main' = IF vidx = main /\ res.ret.vidx < Len(res.variations)
                       THEN res.ret.vidx ELSE main
            /\ ret' = Scheduled(res.ret.vidx, hm + 1)

\* EngineAnalysis::apply called on its own.
EngineApply(vidx, hm, eval, mov) ==
    /\ Apply(vidx, hm, eval, mov)
    /\ UNCHANGED <<dvars, svars, evars, gvars>>

ENext ==
    \E vidx \in 0..(Len(variations) - 1), eval \in EvalSamples, mov \in Moves :
        \E hm \in 0..Len(variations[vidx + 1].moves) :
            EngineApply(vidx, hm, eval, mov)

ESpec == Init /\ [][ENext]_vars

(***************************************************************************)
(* The Dispatcher (rev/dispatcher.rs).  The loop handles one event at a    *)
(* time; each arm of the select! is one action.  A ProcessorItem is in     *)
(* exactly one place: "idle" before dispatch, "waiting" in waiting_pos,    *)
(* "processing" in waiting_res, or "dropped" (the item, and with it the    *)
(* receiver of its channel, was dropped).                                  *)
(***************************************************************************)

\* Processor::should_process of the engine processor: the position has no
\* evaluation yet.
ShouldProcess(pos) == pos \notin evaluated

\* What applying an engine Result for position pos with move mov does: the
\* evaluation is recorded first, then the move is resolved and played; an
\* illegal move fails the application.  [ok, evaluated, moves]
ApplyResult(pos, mov) ==
    LET afterfen == Play(pos, mov) IN
    [ok |-> afterfen # Illegal,
     evaluated |-> evaluated \cup {pos},
     moves |-> IF afterfen = Illegal THEN <<>> ELSE <<afterfen>>]

\* UnboundedSender::send to processor p succeeds while its receiver lives.
SendOk(p, ps) == ps[p] # "dropped"

\* Dispatcher::schedule_pos, the inner loop: one position sent to every
\* processor; total is incremented for each successful send.
SendAll(mov, st, ps) ==
    [chan |-> [p \in Procs |-> IF SendOk(p, ps) THEN Append(st.chan[p], mov)
                                ELSE st.chan[p]],
     total |-> [p \in Procs |-> IF SendOk(p, ps) THEN st.total[p] + 1
                                 ELSE st.total[p]]]

\* schedule_pos without the outcome test: every position is sent.
RECURSIVE SchedulePosAll(_, _, _, _)
SchedulePosAll(st, moves, n, ps) ==
    IF n = 0 THEN st
    ELSE SendAll(moves[n], SchedulePosAll(st, moves, n - 1, ps), ps)

\* Dispatcher::schedule_pos: positions without an outcome are sent, in order.
RECURSIVE SchedulePos(_, _, _, _)
SchedulePos(st, moves, n, ps) ==
    IF n = 0 THEN st
    ELSE LET prev == SchedulePos(st, moves, n - 1, ps)
         IN  IF Outcome(moves[n]) = None THEN SendAll(moves[n], prev, ps) ELSE prev

\* all_done with `any` for `all`.
AllDoneAny == \E p \in Procs : total[p] = completed[p]

\* Dispatcher::all_done
AllDone == \A p \in Procs : total[p] = completed[p]

\* dispatch, before the loop: every item waits on its channel and the root
\* is scheduled.
Dispatch ==
    /\ pc = "built"
    /\ LET ps == [p \in Procs |-> "waiting"]
           st == SchedulePos([chan |-> chan, total |-> total], <<PosAt(0)>>, 1, ps)
       IN  /\ pstate' = ps
           /\ chan' = st.chan
           /\ total' = st.total
    /\ pc' = "loop"
    /\ hb' = FALSE
    /\ UNCHANGED <<completed, cur, evaluated>>
    /\ UNCHANGED <<kvars, svars, evars, gvars>>

\* RecvPos with the processor writing to the knowledge itself: the position
\* is marked as evaluated when its processing starts.
RecvPosMarksEvaluated(p, failed) ==
    /\ pc = "loop" /\ ~AllDone
    /\ pstate[p] = "waiting"
    /\ chan[p] # <<>>
    /\ chan' = [chan EXCEPT ![p] = Tail(@)]
    /\ IF ~failed /\ ShouldProcess(Head(chan[p]))
       THEN /\ pstate' = [pstate EXCEPT ![p] = "processing"]
            /\ cur' = [cur EXCEPT ![p] = Head(chan[p])]
            /\ evaluated' = evaluated \cup {Head(chan[p])}
            /\ UNCHANGED completed
       ELSE /\ completed' = [completed EXCEPT ![p] = @ + 1]
            /\ UNCHANGED <<pstate, cur, evaluated>>
    /\ hb' = FALSE
    /\ UNCHANGED <<pc, total>>
    /\ UNCHANGED <<kvars, svars, evars, gvars>>

\* RecvPos with the receive future armed all the time, also while the
\* process future of p is pending.
RecvPosWhileProcessing(p, failed) ==
    /\ pc = "loop" /\ ~AllDone
    /\ pstate[p] \in {"waiting", "processing"}
    /\ chan[p] # <<>>
    /\ chan' = [chan EXCEPT ![p] = Tail(@)]
    /\ IF ~failed /\ ShouldProcess(Head(chan[p]))
       THEN /\ pstate' = [pstate EXCEPT ![p] = "processing"]
            /\ cur' = [cur EXCEPT ![p] = Head(chan[p])]
            /\ UNCHANGED completed
       ELSE /\ completed' = [completed EXCEPT ![p] = @ + 1]
            /\ UNCHANGED <<pstate, cur>>
    /\ hb' = FALSE
    /\ UNCHANGED <<pc, total, evaluated>>
    /\ UNCHANGED <<kvars, svars, evars, gvars>>

\* select! arm 1: processor p received a position and should_process was
\* consulted; failed says that should_process returned an error.
RecvPos(p, failed) ==
    /\ pc = "loop" /\ ~AllDone
    /\ pstate[p] = "waiting"
    /\ chan[p] # <<>>
    /\ chan' = [chan EXCEPT ![p] = Tail(@)]
    /\ IF ~failed /\ ShouldProcess(Head(chan[p]))
       THEN /\ pstate' = [pstate EXCEPT ![p] = "processing"]
            /\ cur' = [cur EXCEPT ![p] = Head(chan[p])]
            /\ UNCHANGED completed
       ELSE /\ completed' = [completed EXCEPT ![p] = @ + 1]
            /\ UNCHANGED <<pstate, cur>>
    /\ hb' = FALSE
    /\ UNCHANGED <<pc, total, evaluated>>
    /\ UNCHANGED <<kvars, svars, evars, gvars>>

\* select! arm 2, the tail of the Ok arm: what becomes of the ProcessorItem
\* once its Result was applied with success (ok) or with an error.
AfterApply(ok) == IF ok THEN "waiting" ELSE "dropped"

\* ProcessFailed leaving the loop iteration early, as the failed-apply arm
\* does: the ProcessorItem is dropped instead of being rearmed.
ProcessFailedNoRearm(p) ==
    /\ pc = "loop" /\ ~AllDone
    /\ pstate[p] = "processing"
    /\ completed' = [completed EXCEPT ![p] = @ + 1]
    /\ pstate' = [pstate EXCEPT ![p] = "dropped"]
    /\ cur' = [cur EXCEPT ![p] = None]
    /\ hb' = FALSE
    /\ UNCHANGED <<pc, chan, total, evaluated>>
    /\ UNCHANGED <<kvars, svars, evars, gvars>>

\* select! arm 2: the process future of p resolved with an error.
ProcessFailed(p) ==
    /\ pc = "loop" /\ ~AllDone
    /\ pstate[p] = "processing"
    /\ completed' = [completed EXCEPT ![p] = @ + 1]
    /\ pstate' = [pstate EXCEPT ![p] = "waiting"]
    /\ cur' = [cur EXCEPT ![p] = None]
    /\ hb' = FALSE
    /\ UNCHANGED <<pc, chan, total, evaluated>>
    /\ UNCHANGED <<kvars, svars, evars, gvars>>

\* select! arm 2: the process future of p resolved with a Result choosing
\* move mov; the Result is applied and its successors are scheduled.
ProcessDone(p, mov) ==
    /\ pc = "loop" /\ ~AllDone
    /\ pstate[p] = "processing"
    /\ completed' = [completed EXCEPT ![p] = @ + 1]
    /\ LET res == ApplyResult(cur[p], mov)
           ps == [pstate EXCEPT ![p] = AfterApply(res.ok)]
           \* the channel of a dropped receiver loses what it holds
           kept == [q \in Procs |-> IF ps[q] = "dropped" THEN <<>> ELSE chan[q]]
           st == SchedulePos([chan |-> kept, total |-> total],
                             res.moves, Len(res.moves), ps)
       IN  /\ evaluated' = res.evaluated
           /\ pstate' = ps
           /\ chan' = st.chan
           /\ total' = st.total
    /\ cur' = [cur EXCEPT ![p] = None]
    /\ hb' = FALSE
    /\ UNCHANGED pc
    /\ UNCHANGED <<kvars, svars, evars, gvars>>

\* The sum of a per-processor counter over processors 0..n.
RECURSIVE SumUpTo(_, _)
SumUpTo(f, n) == IF n < 0 THEN 0 ELSE f[n] + SumUpTo(f, n - 1)

\* The heartbeat record: total, completed and progress.
HbTotal == SumUpTo(total, NumProcessors - 1)
HbCompleted == SumUpTo(completed, NumProcessors - 1)
HbProgress == (HbCompleted * 100) \div HbTotal

\* Heartbeat with the ticker polled whatever the loop condition says.
HeartbeatOutsideLoop ==
    /\ pc = "loop"
    /\ hb' = TRUE
    /\ UNCHANGED <<pc, chan, total, completed, pstate, cur, evaluated>>
    /\ UNCHANGED <<kvars, svars, evars, gvars>>

\* select! arm 3: the heartbeat ticker fired; the record holds the sums of
\* total and completed of the current state.
Heartbeat ==
    /\ pc = "loop" /\ ~AllDone
    /\ hb' = TRUE
    /\ UNCHANGED <<pc, chan, total, completed, pstate, cur, evaluated>>
    /\ UNCHANGED <<kvars, svars, evars, gvars>>

\* The loop condition failed: dispatch returns Ok(()).
Return ==
    /\ pc = "loop" /\ AllDone
    /\ pc' = "done"
    /\ hb' = FALSE
    /\ UNCHANGED <<chan, total, completed, pstate, cur, evaluated>>
    /\ UNCHANGED <<kvars, svars, evars, gvars>>

Recv == \E p \in Procs, failed \in BOOLEAN : RecvPos(p, failed)

Resolve ==
    \/ \E p \in Procs : ProcessFailed(p)
    \/ \E p \in Procs, mov \in Moves : ProcessDone(p, mov)

DNext == Dispatch \/ Recv \/ Resolve \/ Heartbeat \/ Return

DSpec == Init /\ [][DNext]_vars

\* The select loop under fair scheduling: a pending receive with a queued
\* position is eventually served, a started process call eventually resolves,
\* and the loop condition is eventually re-evaluated.
LiveSpec ==
    /\ DSpec
    /\ WF_vars(Dispatch)
    /\ \A p \in Procs : WF_vars(\E failed \in BOOLEAN : RecvPos(p, failed))
    /\ \A p \in Procs : WF_vars(ProcessFailed(p) \/ \E mov \in Moves : ProcessDone(p, mov))
    /\ WF_vars(Return)

(***************************************************************************)
(* The channels under a producer that outruns its consumers.  Results are  *)
(* supplied by the processors, so the successors handed to schedule_pos    *)
(* are an input: here one position at a time, while consumers take         *)
(* positions at their own pace.                                            *)
(***************************************************************************)
\* Dispatcher::schedule_pos(&[mov]) for the successor of an applied Result.
Fanout(mov) ==
    /\ pc = "loop" /\ ~AllDone
    /\ \A p \in Procs : total[p] < MaxPending
    /\ LET st == SchedulePos([chan |-> chan, total |-> total], <<mov>>, 1, pstate)
       IN  /\ chan' = st.chan
           /\ total' = st.total
    /\ hb' = FALSE
    /\ UNCHANGED <<pc, completed, pstate, cur, evaluated>>
    /\ UNCHANGED <<kvars, svars, evars, gvars>>

CNext ==
    \/ Dispatch
    \/ \E mov \in Roots : Fanout(mov)
    \/ \E p \in Procs : RecvPos(p, TRUE)

CSpec == Init /\ [][CNext]_vars

(***************************************************************************)
(* The InfoStream of a search (uci/proto.rs).  The engine writes lines to  *)
(* its stdout at its own pace; info() reads them through Protocol::recv.   *)
(***************************************************************************)
\* Lines of the engine: info records that parse into a Msg::Info, bestmove
\* lines, a message of another kind, a line Msg::parse rejects, and the end
\* of the stream (stdout closed).
InfoLine(rec) == [cmd |-> "info", arg |-> rec]
BestMoveLine(mov) == [cmd |-> "bestmove", arg |-> mov]
ReadyOkLine == [cmd |-> "readyok", arg |-> None]
JunkLine == [cmd |-> "junk", arg |-> None]
Eof == [cmd |-> "eof", arg |-> None]
\* A line next_line cannot decode: the read fails, the line is gone.
BadLine == [cmd |-> "invalid", arg |-> None]
Infos == {"i1", "i2"}
Lines ==
    {InfoLine(rec) : rec \in Infos} \cup {BestMoveLine(mov) : mov \in Moves}
        \cup {ReadyOkLine, JunkLine, Eof, BadLine}

\* Msg::parse: Some(message) of a line, None for a line that is no message.
MsgParse(line) == IF line.cmd = "junk" THEN <<>> ELSE <<line>>

\* Result<Option<Info>> of info(), and info() still awaiting a line.
OkSome(info) == [op |-> "info", err |-> None, val |-> <<info>>]
OkNone == [op |-> "info", err |-> None, val |-> <<>>]
ErrClosed == [op |-> "info", err |-> "Engine stdout closed", val |-> <<>>]
ErrRead == [op |-> "info", err |-> "While reading engine", val |-> <<>>]
Pending == [op |-> "info", err |-> "pending", val |-> <<>>]

\* InfoStream::info, the loop over Protocol::recv on the unread lines: what
\* is returned, the lines left unread and the cached best move.  recv skips
\* the lines that are no message, info() the messages of other kinds.
RECURSIVE InfoLoop(_, _)
InfoLoop(lines, cached) ==
    IF lines = <<>> THEN [ret |-> Pending, rest |-> lines, best |-> cached]
    ELSE IF Head(lines) = Eof THEN [ret |-> ErrClosed, rest |-> lines, best |-> cached]
    ELSE IF Head(lines) = BadLine THEN [ret |-> ErrRead, rest |-> Tail(lines), best |-> cached]
    ELSE LET msg == MsgParse(Head(lines)) IN
         IF msg = <<>> THEN InfoLoop(Tail(lines), cached)
         ELSE IF msg[1].cmd = "bestmove"
              THEN [ret |-> OkNone, rest |-> Tail(lines), best |-> msg[1].arg]
         ELSE IF msg[1].cmd = "info"
              THEN [ret |-> OkSome(msg[1].arg), rest |-> Tail(lines), best |-> cached]
         ELSE InfoLoop(Tail(lines), cached)

\* A call of InfoStream::info that returns; while no line decides it the
\* call only waits.
InfoCall ==
    LET res == InfoLoop(out, best) IN
    /\ res.ret.err # Pending.err
    /\ iret' = res.ret
    /\ out' = res.rest
    /\ best' = res.best
    /\ UNCHANGED gvars
    /\ UNCHANGED <<kvars, dvars, evars>>

\* The engine writes a line to its stdout, or closes it.
EngineEmit(line) ==
    /\ Len(out) < MaxLines
    /\ IF out = <<>> THEN TRUE ELSE Last(out) # Eof
    /\ out' = Append(out, line)
    /\ UNCHANGED <<best, iret>>
    /\ UNCHANGED gvars
    /\ UNCHANGED <<kvars, dvars, evars>>

INext ==
    \/ \E line \in Lines : EngineEmit(line)
    \/ InfoCall

ISpec == Init /\ [][INext]_vars

(***************************************************************************)
(* The engine processor (rev/engine.rs) on one engine.  Its caller is not  *)
(* part of rev/engine.rs; it is taken as the loop that, while the          *)
(* processor is not idle, awaits process(), then hands what apply_results  *)
(* returns to enqueue, keeping the successors that are not terminal        *)
(* positions.  task.st is "new", "enqueue", "idle", "running"              *)
(* (Engine::process awaits the InfoStream) or "apply".                     *)
(***************************************************************************)
White == "White"
Black == "Black"

\* Position::turn
Turn(fen) == IF fen \in {"A", "B"} THEN Black ELSE White

\* EngineAnalysis::new
EngineAnalysisNew(variation, hm, fen, mov, eval) ==
    [variation |-> variation, hm |-> hm, mov |-> mov,
     eval |-> IF Turn(fen) = White THEN eval ELSE Rev(eval)]

\* Command::Position and Command::Go
PositionCmd(fen, line) == [cmd |-> "position", fen |-> fen, line |-> line]
GoCmd == [cmd |-> "go", fen |-> None, line |-> <<>>]

\* Info: the moves of the principal variation kept (its first) and the score.
InfoNew(line, score) == [line |-> line, score |-> score]

\* The successors the caller hands on: those that are no terminal position.
Handed ==
    SelectSeq(sched,
        LAMBDA s : Outcome(PosAt(variations[s.variation + 1].positions[s.hm + 1])) = None)

\* The Enqueued item of a Scheduled one: the root position of the variation
\* and its first hm moves.
EnqueuedOf(s) ==
    LET variation == variations[s.variation + 1] IN
    [variation |-> s.variation, hm |-> s.hm,
     fen |-> PosAt(variation.positions[1]),
     moves |-> SubSeq(variation.moves, 1, s.hm)]

\* The caller prepares its first schedule: the root of the main variation,
\* n times (enqueue takes any slice and does not look for duplicates).
Seed(n) ==
    /\ task.st = "new"
    /\ sched' = [i \in 1..n |-> ScheduledNew(0, 0)]
    /\ task' = TaskAt("enqueue")
    /\ UNCHANGED <<queue, results, stdin, busy>>
    /\ UNCHANGED <<kvars, dvars, svars, gvars>>

\* EngineProcessor::enqueue on what the caller hands on.
Enqueue ==
    LET kept == SelectSeq(Handed,
                    LAMBDA s : Len(variations[s.variation + 1].moves) <= s.hm)
    IN
    /\ task.st = "enqueue"
    /\ queue' = queue \o [i \in 1..Len(kept) |-> EnqueuedOf(kept[i])]
    /\ sched' = <<>>
    /\ task' = TaskAt("idle")
    /\ ret' = [op |-> "enqueue", err |-> None]
    /\ UNCHANGED <<positions, index, variations, main>>
    /\ UNCHANGED <<results, stdin, busy>>
    /\ UNCHANGED <<dvars, svars, gvars>>

\* EngineProcessor::process up to the first await on the InfoStream: the
\* item is taken from the queue, Engine::go writes position and go.
ProcessStart ==
    /\ task.st = "idle"
    /\ queue # <<>>
    /\ LET next == Head(queue) IN
         /\ stdin' = stdin \o <<PositionCmd(next.fen, next.moves), GoCmd>>
         /\ task' = [st |-> "running", item |-> <<next>>, mov |-> <<>>, eval |-> <<>>]
    /\ queue' = Tail(queue)
    /\ busy' = busy + 1
    /\ best' = None
    /\ iret' = [op |-> "go"]
    /\ UNCHANGED out
    /\ UNCHANGED gvars
    /\ UNCHANGED <<results, sched>>
    /\ UNCHANGED <<kvars, dvars>>

\* ProcessInfo keeping the first move seen (mov.or(next)) instead of the
\* last one.
ProcessInfoFirstMove ==
    LET res == InfoLoop(out, best)
        item == task.item[1]
    IN
    /\ task.st = "running"
    /\ res.ret.err # Pending.err
    /\ iret' = res.ret
    /\ out' = res.rest
    /\ best' = res.best
    /\ UNCHANGED gvars
    /\ IF res.ret.err # None THEN
            /\ task' = TaskAt("apply")
            /\ UNCHANGED results
       ELSE IF res.ret.val # <<>> THEN
            /\ task' = [task EXCEPT
                           !.mov = IF task.mov # <<>> THEN task.mov
                                   ELSE <<res.ret.val[1].line[1]>>,
                           !.eval = <<res.ret.val[1].score>>]
            /\ UNCHANGED results
       ELSE /\ task' = TaskAt("apply")
            /\ results' =
                 IF task.mov = <<>> \/ task.eval = <<>> THEN results
                 ELSE Append(results,
                        EngineAnalysisNew(item.variation, item.hm, item.fen,
                                          task.mov[1], task.eval[1]))
    /\ UNCHANGED <<queue, sched, stdin, busy>>
    /\ UNCHANGED <<kvars, dvars>>

\* One turn of the loop of Engine::process: a call of InfoStream::info
\* that returns.  Some(info) updates mov and eval; None ends the loop, and
\* the analysis is pushed unless the move or the eval is missing; an error
\* ends process() with the error logged.
ProcessInfo ==
    LET res == InfoLoop(out, best)
        item == task.item[1]
    IN
    /\ task.st = "running"
    /\ res.ret.err # Pending.err
    /\ iret' = res.ret
    /\ out' = res.rest
    /\ best' = res.best
    /\ UNCHANGED gvars
    /\ IF res.ret.err # None THEN
            /\ task' = TaskAt("apply")
            /\ UNCHANGED results
       ELSE IF res.ret.val # <<>> THEN
            /\ task' = [task EXCEPT
                           !.mov = IF res.ret.val[1].line # <<>>
                                   THEN <<res.ret.val[1].line[1]>> ELSE task.mov,
                           !.eval = <<res.ret.val[1].score>>]
            /\ UNCHANGED results
       ELSE /\ task' = TaskAt("apply")
            /\ results' =
                 IF task.mov = <<>> \/ task.eval = <<>> THEN results
                 ELSE Append(results,
                        EngineAnalysisNew(item.variation, item.hm, item.fen,
                                          task.mov[1], task.eval[1]))
    /\ UNCHANGED <<queue, sched, stdin, busy>>
    /\ UNCHANGED <<kvars, dvars>>

\* EngineProcessor::apply_results: the results are drained and applied; the
\* Scheduled of those applied without error are returned.  process() pushes
\* at most one result before the caller applies.
ApplyResults ==
    /\ task.st = "apply"
    /\ IF results = <<>> THEN
            /\ sched' = <<>>
            /\ ret' = [op |-> "apply_results", err |-> None]
            /\ UNCHANGED <<positions, index, variations, main>>
       ELSE LET res == results[1] IN
            /\ Apply(res.variation, res.hm, res.eval, res.mov)
            /\ sched' = IF ret'.err = None
                        THEN <<ScheduledNew(ret'.vidx, ret'.hm)>> ELSE <<>>
    /\ results' = <<>>
    /\ task' = TaskAt("enqueue")
    /\ UNCHANGED <<queue, stdin, busy>>
    /\ UNCHANGED <<dvars, svars, gvars>>

\* The engine process writes a line of a running search to its stdout:
\* an info, or the bestmove that ends the search.
EngineWrite(line) ==
    /\ busy > 0
    /\ Len(out) < MaxLines
    /\ out' = Append(out, line)
    /\ busy' = IF line.cmd = "bestmove" THEN busy - 1 ELSE busy
    /\ UNCHANGED <<best, iret>>
    /\ UNCHANGED gvars
    /\ UNCHANGED <<queue, results, sched, stdin, task>>
    /\ UNCHANGED <<kvars, dvars>>

\* Scores reported during a search.
SearchScores == {Cp(35), Mate(1)}

\* What the engine writes during a search.  Info::parse gives an Info only
\* for a line with a score and a pv of at least one move, so every Info has
\* a first move; lines it rejects are skipped like JunkLine.
SearchLines ==
    {InfoLine(InfoNew(<<mov>>, score)) : mov \in Moves, score \in SearchScores}
        \cup {BestMoveLine("a"), BadLine}

PNext ==
    \/ \E n \in 1..MaxSeeds : Seed(n)
    \/ Enqueue
    \/ ProcessStart
    \/ ProcessInfo
    \/ ApplyResults
    \/ \E line \in SearchLines : EngineWrite(line)

PSpec == Init /\ [][PNext]_vars

(***************************************************************************)
(* Info::parse (uci/proto.rs) on the arguments of an `info` line, taken as *)
(* the sequence of its whitespace-separated tokens.                        *)
(***************************************************************************)
\* Number tokens and their values: one that fits u8, i8 and i16, and one
\* that fits none of them.
NumVal == [n7 |-> 7, n40000 |-> 40000]
NumTokens == {"n7", "n40000"}

\* The tokens lines are made of; "a" is a move.
Tokens ==
    {"score", "cp", "mate", "pv", "depth", "multipv", "string", "a"}
        \cup NumTokens

\* str::parse::<u8>, ::<i8>, ::<i16> succeed on the token.
FitsU8(tok) == tok \in NumTokens /\ NumVal[tok] <= 255
FitsI8(tok) == tok \in NumTokens /\ NumVal[tok] <= 127
FitsI16(tok) == tok \in NumTokens /\ NumVal[tok] <= 32767

\* str::parse::<UciMove> succeeds on the token.
IsMove(tok) == tok \in Moves

\* args.split_once(" string "): the index of the first token `string` that
\* is followed by more text, 0 if there is none.
StringAt(toks) ==
    LET at == {k \in 1..(Len(toks) - 1) : toks[k] = "string"} IN
    IF at = {} THEN 0 ELSE CHOOSE k \in at : \A j \in at : k <= j

\* What the token loop has collected so far.
Collected(score, line) == [score |-> score, line |-> line]

\* Result<Option<Info>>
ParseOk(info) == [err |-> None, val |-> <<info>>]
ParseNone == [err |-> None, val |-> <<>>]
ParseErr(msg) == [err |-> msg, val |-> <<>>]

\* The number of tokens from index i on that parse as moves (the pv arm).
RECURSIVE PvLen(_, _)
PvLen(toks, i) ==
    IF i <= Len(toks) /\ IsMove(toks[i]) THEN 1 + PvLen(toks, i + 1) ELSE 0

\* Info::parse, the loop over the tokens from index i on and the checks
\* after it.
RECURSIVE ParseFrom(_, _, _)
ParseFrom(toks, i, got) ==
    IF i > Len(toks) THEN
        IF got.score = <<>> THEN ParseErr("Score missing in info")
        ELSE IF got.line = <<>> THEN ParseErr("Line missing in info")
        ELSE ParseOk(InfoNew(got.line, got.score[1]))
    ELSE IF toks[i] = "multipv" THEN
        IF i + 1 > Len(toks) THEN ParseErr("Missing multipv value")
        ELSE IF ~FitsU8(toks[i + 1]) THEN ParseErr("Invalid multipv value")
        ELSE ParseFrom(toks, i + 2, got)
    ELSE IF toks[i] = "depth" THEN
        IF i + 1 > Len(toks) THEN ParseErr("Missing depth value")
        ELSE IF ~FitsU8(toks[i + 1]) THEN ParseErr("Invalid depth value")
        ELSE ParseFrom(toks, i + 2, got)
    ELSE IF toks[i] = "score" THEN
        IF i + 1 > Len(toks) THEN ParseErr("Missing score type")
        ELSE IF toks[i + 1] = "cp" THEN
            IF i + 2 > Len(toks) THEN ParseErr("Missing cp value")
            ELSE IF ~FitsI16(toks[i + 2]) THEN ParseErr("Invalid cp value")
            ELSE ParseFrom(toks, i + 3,
                           Collected(<<Cp(NumVal[toks[i + 2]])>>, got.line))
        ELSE IF toks[i + 1] = "mate" THEN
            IF i + 2 > Len(toks) THEN ParseErr("Missing mate value")
            ELSE IF ~FitsI8(toks[i + 2]) THEN ParseErr("Invalid mate value")
            ELSE ParseFrom(toks, i + 3,
                           Collected(<<Mate(NumVal[toks[i + 2]])>>, got.line))
        ELSE ParseErr("Invalid score type")
    ELSE IF toks[i] = "pv" THEN
        LET n == PvLen(toks, i + 1) IN
        ParseFrom(toks, i + 1 + n, Collected(got.score, SubSeq(toks, i + 1, i + n)))
    ELSE ParseFrom(toks, i + 1, got)

\* Info::parse
InfoParse(toks) ==
    LET k == StringAt(toks) IN
    IF k = 1 THEN ParseNone
    ELSE ParseFrom(IF k = 0 THEN toks ELSE SubSeq(toks, 1, k - 1), 1,
                   Collected(<<>>, <<>>))

\* Msg::parse on an `info` line: Some(Msg::Info) or None.
MsgParseInfo(toks) == InfoParse(toks).val

\* A call of Msg::parse on an info line: the tokens of the line parsed
\* before (none at first) and one more token tok, followed by a
\* ` string ...` section when str is TRUE.
ParseInfo(tok, str) ==
    LET toks == (IF ret.op = "parse" THEN ret.toks ELSE <<>>) \o <<tok>>
        line == IF str THEN toks \o <<"string", "a">> ELSE toks
    IN
    /\ Len(toks) <= MaxTokens
    /\ ret' = [op |-> "parse", toks |-> toks, line |-> line,
               msg |-> MsgParseInfo(line)]
    /\ UNCHANGED <<positions, index, variations, main>>
    /\ UNCHANGED <<dvars, svars, evars, gvars>>

TNext == \E tok \in Tokens, str \in BOOLEAN : ParseInfo(tok, str)

TSpec == Init /\ [][TNext]_vars

(***************************************************************************)
(* Pgn (knowledge/pgn.rs): the position graph of a Knowledge, the cardinal *)
(* path to each position, and the movetext walk.  The Knowledge it reads   *)
(* keeps, per position, the ordered moves played from it.  Its positions   *)
(* are those of the graph above with a position S before the root and a    *)
(* third move c, so that cycles lie after the root and positions have      *)
(* several alternatives:                                                   *)
(*                                                                         *)
(*          S -a-> R    R -c-> T    B -c-> R                               *)
(***************************************************************************)
PgnFens == Fens \cup {"S"}
PgnMoves == Moves \cup {"c"}

PlayFrom(fen, mov) ==
    CASE fen = "S" /\ mov = "a" -> "R"
      [] fen = "S" /\ mov # "a" -> Illegal
      [] fen = "R" /\ mov = "c" -> "T"
      [] fen = "B" /\ mov = "c" -> "R"
      [] OTHER -> Play(fen, mov)

TurnOf(fen) == IF fen = "S" THEN Black ELSE Turn(fen)

\* The orders in which the legal moves of a position, or some of them, can
\* be kept: the sequences of different legal moves.
MoveOrders(fen) ==
    LET legal == {mov \in PgnMoves : PlayFrom(fen, mov) # Illegal} IN
    {o \in UNION {[1..n -> legal] : n \in 0..MaxMoves} :
        \A i \in 1..Len(o), j \in 1..Len(o) : i # j => o[i] # o[j]}

\* The order in which the Knowledge below gets its positions.
PgnOrder == <<"S", "R", "A", "B", "T">>

\* The Knowledge gets the entry of its next position: the moves kept for
\* it, in order, each with the position after it.
KnowledgeKeeps(order) ==
    LET kdata == pgn.data
        fen == PgnOrder[Cardinality(DOMAIN kdata) + 1]
        entry == [i \in 1..Len(order) |->
                     [mov |-> order[i], pos |-> PlayFrom(fen, order[i])]]
    IN
    /\ pgn.phase = "none"
    /\ Cardinality(DOMAIN kdata) < Len(PgnOrder)
    /\ order \in MoveOrders(fen)
    /\ pgn' = [pgn EXCEPT !.data = [pos \in DOMAIN kdata \cup {fen} |->
                                       IF pos = fen THEN entry ELSE kdata[pos]]]
    /\ UNCHANGED <<kvars, dvars, svars, evars>>

\* The roots of the Knowledge read.
PgnRoots == {"S", "R"}

\* MoveNo::new: the full-move number and the side to move of a position
\* (the root is at full move 1).
MoveNoNew(fen) == [full |-> 1, color |-> TurnOf(fen)]

\* MoveNo::next
MoveNoNext(no) ==
    IF no.color = White
    THEN [full |-> no.full, color |-> Black]
    ELSE [full |-> no.full + 1, color |-> White]

\* <MoveNo as Ord>::cmp
MoveNoCmp(n1, n2) ==
    IF n1.full = n2.full
    THEN (IF n1.color = White /\ n2.color = Black THEN Less
          ELSE IF n1.color = Black /\ n2.color = White THEN Greater
          ELSE Equal)
    ELSE IntCmp(n1.full, n2.full)

\* PosPath::default
PosPathDefault == [path |-> <<>>, parent |-> None]

\* The fold of <PosPath as Ord>::cmp over the zipped paths, first tie: the
\* first ordering of move indices that is not Equal.
RECURSIVE TieIdx(_, _, _)
TieIdx(p1, p2, i) ==
    IF i > Len(p1) \/ i > Len(p2) THEN Equal
    ELSE IF IntCmp(p1[i].idx, p2[i].idx) # Equal THEN IntCmp(p1[i].idx, p2[i].idx)
    ELSE TieIdx(p1, p2, i + 1)

\* The same fold, second tie: the first ordering of move numbers that is
\* not Equal.
RECURSIVE TieNo(_, _, _)
TieNo(p1, p2, i) ==
    IF i > Len(p1) \/ i > Len(p2) THEN Equal
    ELSE IF MoveNoCmp(p1[i].no, p2[i].no) # Equal THEN MoveNoCmp(p1[i].no, p2[i].no)
    ELSE TieNo(p1, p2, i + 1)

\* <PosPath as Ord>::cmp, on the path vectors.
PosPathCmp(p1, p2) ==
    LET tie0 == TieIdx(p1, p2, 1)
        tie2 == TieNo(p1, p2, 1)
    IN  IF tie0 # Equal THEN tie0
        ELSE IF Len(p1) # Len(p2) THEN IntCmp(Len(p1), Len(p2))
        ELSE tie2

\* PosPath::update: whether the path replaces the one the position has.
PosPathUpdate(self, path) ==
    self.path = <<>> \/ PosPathCmp(path, self.path) = Less

\* The positions Pgn::new takes from the queue: the root and the positions
\* after the moves of the positions that have an entry.
RECURSIVE Queued(_, _)
Queued(kdata, seen) ==
    LET more == seen \cup UNION {{kdata[fen][i].pos : i \in 1..Len(kdata[fen])} :
                                   fen \in seen \cap DOMAIN kdata}
    IN  IF more = seen THEN seen ELSE Queued(kdata, more)

\* Pgn::new, `last`: the position after following first moves from pos,
\* taking at most n positions.
RECURSIVE LastOf(_, _, _)
LastOf(data, pos, n) ==
    IF n > 1 /\ pos \in DOMAIN data /\ data[pos].moves # <<>>
    THEN LastOf(data, data[pos].moves[1].pos, n - 1)
    ELSE pos

\* Pgn::new, of the Knowledge kept so far, up to the call of
\* populate_pathes, which starts with its stack holding the root unless the
\* root has no entry or no move.
PgnNew(root) ==
    LET kdata == pgn.data
        data == [fen \in Queued(kdata, {root}) \cap DOMAIN kdata |->
                    [path |-> PosPathDefault, moves |-> kdata[fen]]]
        last == LastOf(data, root, Cardinality(DOMAIN data))
        empty == root \notin DOMAIN data \/ data[root].moves = <<>>
    IN
    /\ pgn.phase = "none"
    /\ pgn' = [phase |-> "pathes", root |-> root, outcome |-> Outcome(last),
               data |-> data,
               stack |-> IF empty THEN <<>>
                         ELSE <<[pos |-> root, movidx |-> 0,
                                 movno |-> MoveNoNew(root)]>>,
               text |-> <<>>]
    /\ UNCHANGED <<kvars, dvars, svars, evars>>

\* All but the last element of a non-empty sequence (Vec::pop).
Popped(seq) == SubSeq(seq, 1, Len(seq) - 1)

\* Maintain leaving on the stack a position whose moves are exhausted.
MaintainExhausted(stack, keep, movidx) ==
    IF keep THEN [stack EXCEPT ![Len(stack)].movidx = movidx] ELSE stack

\* populate_pathes: the position on top of the stack is maintained, with
\* its next move index, while it has a further move, and popped otherwise.
Maintain(stack, keep, movidx) ==
    IF keep THEN [stack EXCEPT ![Len(stack)].movidx = movidx] ELSE Popped(stack)

\* populate_pathes: one turn of its loop.
PopulatePathes ==
    LET top == Last(pgn.stack)
        info == pgn.data[top.pos]
        keep == top.movidx + 1 < Len(info.moves)
        movidx == IF keep THEN top.movidx + 1 ELSE top.movidx
        stack == Maintain(pgn.stack, keep, movidx)
        mov == info.moves[movidx + 1]
        nextpos == mov.pos
        path == IF info.path.path # <<>> /\ Last(info.path.path).idx = 0
                THEN Popped(info.path.path)
                ELSE info.path.path
        newpath == Append(path, [no |-> top.movno, san |-> mov.mov, idx |-> movidx])
    IN
    /\ pgn.phase = "pathes"
    /\ pgn.stack # <<>>
    /\ IF nextpos # pgn.root /\ nextpos \in DOMAIN pgn.data
       THEN IF PosPathUpdate(pgn.data[nextpos].path, newpath)
            THEN pgn' = [pgn EXCEPT
                     !.data[nextpos].path = [path |-> newpath, parent |-> top.pos],
                     !.stack = IF pgn.data[nextpos].moves # <<>>
                               THEN Append(stack, [pos |-> nextpos, movidx |-> 0,
                                                   movno |-> MoveNoNext(top.movno)])
                               ELSE stack]
            ELSE pgn' = [pgn EXCEPT !.stack = stack]
       ELSE pgn' = [pgn EXCEPT !.stack = stack]
    /\ UNCHANGED <<kvars, dvars, svars, evars>>

\* write_pgn after Pgn::new: write_moves starts with the root on its stack.
WriteMovesStart ==
    /\ pgn.phase = "pathes"
    /\ pgn.stack = <<>>
    /\ pgn' = [pgn EXCEPT !.phase = "moves",
                          !.stack = <<[parent |-> None, pos |-> pgn.root, mov_idx |-> 0,
                                       mov_no |-> MoveNoNew(pgn.root)]>>]
    /\ UNCHANGED <<kvars, dvars, svars, evars>>

\* The tokens of the movetext: a parenthesis, or a move with its number and
\* whether its comment has a "Transposes:" part.
OpenPar == [tok |-> "("]
ClosePar == [tok |-> ")"]
MoveTok(no, san, transposition) ==
    [tok |-> "move", no |-> no, san |-> san, transposes |-> transposition]

\* write_moves: one turn of its loop.
WriteMoves ==
    LET top == Last(pgn.stack)
        missing == top.pos \notin DOMAIN pgn.data
        info == pgn.data[top.pos]
        mov == info.moves[top.mov_idx + 1]
        mov_idx == top.mov_idx + 1
        transposition == top.parent # info.path.parent
        done == mov_idx >= Len(info.moves)
        stack == IF done
                 THEN Popped(pgn.stack)
                 ELSE [pgn.stack EXCEPT ![Len(pgn.stack)].mov_idx = mov_idx]
        text == (IF top.mov_idx > 0 THEN <<OpenPar>> ELSE <<>>)
                  \o <<MoveTok(top.mov_no, mov.mov, transposition)>>
                  \o (IF done /\ stack # <<>> THEN <<ClosePar>> ELSE <<>>)
    IN
    /\ pgn.phase = "moves"
    /\ pgn.stack # <<>>
    /\ IF missing
       THEN pgn' = [pgn EXCEPT !.stack = Popped(pgn.stack)]
       ELSE IF info.moves = <<>>
       THEN pgn' = [pgn EXCEPT !.stack = Popped(pgn.stack)]
       ELSE pgn' = [pgn EXCEPT
                !.text = pgn.text \o text,
                !.stack = IF transposition THEN stack
                          ELSE Append(stack, [parent |-> top.pos, pos |-> mov.pos,
                                              mov_idx |-> 0,
                                              mov_no |-> MoveNoNext(top.mov_no)])]
    /\ UNCHANGED <<kvars, dvars, svars, evars>>

\* write_result: the result token ends the movetext.
WriteResult ==
    /\ pgn.phase = "moves"
    /\ pgn.stack = <<>>
    /\ pgn' = [pgn EXCEPT !.phase = "written",
                          !.text = Append(pgn.text, [tok |-> "result",
                                                     outcome |-> pgn.outcome])]
    /\ UNCHANGED <<kvars, dvars, svars, evars>>

GNext ==
    \/ \E order \in UNION {MoveOrders(fen) : fen \in PgnFens} : KnowledgeKeeps(order)
    \/ \E root \in PgnRoots : PgnNew(root)
    \/ PopulatePathes
    \/ WriteMovesStart
    \/ WriteMoves
    \/ WriteResult

GSpec == Init /\ [][GNext]_vars

\* The loops are run to their end: a turn that can be taken is taken.
GLive == GSpec /\ WF_vars(GNext)

(***************************************************************************)
(* Helpers of the properties.                                              *)
(***************************************************************************)
\* The position reached by playing moves[1..n] from fen, computed with the
\* chess library alone (Illegal if some move is illegal).
RECURSIVE Replay(_, _, _)
Replay(fen, moves, n) ==
    IF n = 0 THEN fen
    ELSE LET before == Replay(fen, moves, n - 1)
         IN  IF before = Illegal THEN Illegal ELSE Play(before, moves[n])

\* How often the last position index of a variation occurs in its positions.
LastCount(variation) ==
    Cardinality({i \in 1..Len(variation.positions) :
                    variation.positions[i] = Last(variation.positions)})

KnowledgeUnchanged == UNCHANGED <<positions, index, variations, main>>

(***************************************************************************)
(* Properties of the Knowledge graph.                                      *)
(***************************************************************************)

\* C1: a Position occurs at most once in positions, the dedup index is exactly
\* the inverse of the vector, and every move sequence recorded from the root
\* (a prefix of a variation) ends on the index of the Position the chess rules
\* lead to, so that two sequences reaching the same Position end on the same
\* position index.
PositionsDeduplicated ==
    /\ \A i, j \in 1..Len(positions) : positions[i].pos = positions[j].pos => i = j
    /\ DOMAIN index = {positions[i].pos : i \in 1..Len(positions)}
    /\ \A i \in 1..Len(positions) : index[positions[i].pos] = i - 1
    /\ \A v \in 1..Len(variations) :
          \A n \in 0..Len(variations[v].moves) :
             LET reached == Replay(positions[1].pos, variations[v].moves, n)
             IN  /\ reached \in DOMAIN index
                 /\ variations[v].positions[n + 1] = index[reached]

\* Witness of C1: two variations that start with different moves end on the same
\* position index (a transposition has been recorded).
TranspositionRecorded ==
    \E v, w \in 1..Len(variations) :
        /\ Len(variations[v].moves) > 1 /\ Len(variations[w].moves) > 1
        /\ variations[v].moves[1] # variations[w].moves[1]
        /\ Last(variations[v].positions) = Last(variations[w].positions)

\* C2: every variation has one more position than moves, all its position
\* indices are valid, and its first position is the shared root index 0.
VariationsAligned ==
    \A v \in 1..Len(variations) :
        /\ Len(variations[v].positions) = Len(variations[v].moves) + 1
        /\ \A i \in 1..Len(variations[v].positions) :
              variations[v].positions[i] \in 0..(Len(positions) - 1)
        /\ variations[v].positions[1] = 0

\* Witness of C2: a variation branched after the first move of another one.
BranchedAfterFirstMove ==
    \E v, w \in 1..Len(variations) :
        /\ v < w
        /\ Len(variations[v].moves) > 1 /\ Len(variations[w].moves) > 1
        /\ variations[v].moves[1] = variations[w].moves[1]
        /\ variations[v].moves[2] # variations[w].moves[2]

\* C3: in every variation, playing move i on the position stored at
\* positions[i] gives the position stored at positions[i + 1].
ReplayReproducesPositions ==
    \A v \in 1..Len(variations) :
        \A i \in 1..Len(variations[v].moves) :
            Play(PosAt(variations[v].positions[i]), variations[v].moves[i])
                = PosAt(variations[v].positions[i + 1])

\* Witness of C3: a variation extended in place to three moves next to a
\* variation branched off it after its first move.
ExtendedAndBranched ==
    \E v, w \in 1..Len(variations) :
        /\ v < w
        /\ Len(variations[v].moves) > 2 /\ Len(variations[w].moves) > 1
        /\ variations[v].moves[1] = variations[w].moves[1]
        /\ variations[v].moves[2] # variations[w].moves[2]

\* C4: add_move(v, hm, move) on a variation that already plays move as its
\* move at index hm returns v with the position at positions[hm + 1] and
\* changes nothing in Knowledge.
AlreadyPlayedMoveIsNoOp ==
    [][ret'.op = "add_move" =>
          \A vidx \in 0..(Len(variations) - 1), mov \in Moves :
             \A hm \in 0..(Len(variations[vidx + 1].moves) - 1) :
                (variations[vidx + 1].moves[hm + 1] = mov /\ AddMove(vidx, hm, mov))
                   => /\ KnowledgeUnchanged
                      /\ ret' = Ok(vidx, variations[vidx + 1].positions[hm + 2])]_vars

\* C5: add_move at the end of a variation whose outcome is Some fails with
\* "extending variation beyond game conclusion" and changes nothing, and no
\* step makes the move list of a concluded variation grow.
ConcludedNeverExtended ==
    [][/\ \A v \in 1..Len(variations) :
             variations[v].outcome # None
                => variations'[v].moves = variations[v].moves
       /\ (ret'.op = "add_move" /\ ~(ret' = Err(ErrConclusion) /\ KnowledgeUnchanged)) =>
             \A vidx \in 0..(Len(variations) - 1) :
                variations[vidx + 1].outcome # None =>
                   \A mov \in Moves :
                      ~AddMove(vidx, Len(variations[vidx + 1].moves), mov)]_vars

\* Witness of C5: add_move was refused with the conclusion error in a
\* Knowledge whose only concluded variations are three-fold repetitions.
RepetitionExtensionRefused ==
    /\ ret.op = "add_move" /\ ret.err = ErrConclusion
    /\ \E v \in 1..Len(variations) : variations[v].outcome = "Draw"
    /\ \A v \in 1..Len(variations) : variations[v].outcome \in {None, "Draw"}

\* C6: after add_move appended a move, the outcome of the variation it
\* returns is the successor's intrinsic outcome if there is one, else Draw if
\* its last position index occurs at least 3 times, else None; and in every
\* state a variation whose last index occurs at least 3 times is concluded.
OutcomeFollowsAppend ==
    /\ [](\A v \in 1..Len(variations) :
             LastCount(variations[v]) >= 3 => variations[v].outcome # None)
    /\ [][(ret'.op = "add_move" /\ variations' # variations) =>
             \A vidx \in 0..(Len(variations) - 1), mov \in Moves :
                \A hm \in 0..Len(variations[vidx + 1].moves) :
                   AddMove(vidx, hm, mov)
                      => LET appended == variations'[ret'.vidx + 1]
                             intrinsic == Outcome(positions'[Last(appended.positions) + 1].pos)
                         IN  /\ Last(appended.moves) = mov
                             /\ appended.outcome =
                                   IF intrinsic # None THEN intrinsic
                                   ELSE IF LastCount(appended) >= 3 THEN "Draw"
                                   ELSE None]_vars

\* Witness of C6: a variation concluded as a draw by repetition, its last
\* position having no intrinsic outcome.
DrawnByRepetition ==
    \E v \in 1..Len(variations) :
        /\ variations[v].outcome = "Draw"
        /\ LastCount(variations[v]) >= 3
        /\ Outcome(PosAt(Last(variations[v].positions))) = None

\* C7: initially main = 0 and variations[0] is an empty variation over the
\* root; main is a valid variation index in every reachable state.
MainIsValid ==
    /\ main = 0
    /\ variations[1].moves = <<>> /\ variations[1].positions = <<0>>
    /\ [](main < Len(variations))

\* Witness of C7: update_mainline has moved main to another variation.
MainMoved == ret.op = "update_mainline" /\ main > 0

(***************************************************************************)
(* Properties of the Dispatcher.                                           *)
(***************************************************************************)

\* C8: under fair scheduling of the select loop, with every started process
\* call resolving and finitely many positions, dispatch eventually returns.
DispatchTerminates == <>(pc = "done")

\* C9: dispatch has returned only if every processor's total equals its
\* completed; once they are all equal inside the loop the only step is the
\* return, with no receive, process or apply step; and the return then happens.
ExitsExactlyWhenAllDone ==
    /\ [](pc = "done" => \A p \in Procs : total[p] = completed[p])
    /\ [][(pc = "loop" /\ \A p \in Procs : total[p] = completed[p])
             => /\ pc' = "done"
                /\ UNCHANGED <<chan, total, completed, pstate, cur, evaluated>>
                /\ UNCHANGED kvars]_vars
    /\ [][pc' = "done" => \A p \in Procs : total[p] = completed[p]]_vars
    /\ (pc = "loop" /\ \A p \in Procs : total[p] = completed[p]) ~> (pc = "done")

\* Witness of C9: dispatch returned after every processor was sent, and
\* completed, the root and at least one successor.
ReturnedAfterWork ==
    /\ pc = "done"
    /\ \A p \in Procs : total[p] >= 2 /\ completed[p] = total[p]

\* C10: whenever a process future resolves with a Result, the processor's
\* receive future is rearmed, whether applying the Result succeeds or fails.
RearmedAfterResult ==
    [][\A p \in Procs, mov \in Moves :
          ProcessDone(p, mov) => pstate'[p] = "waiting"]_vars

\* C11: with several processors whose should_process is "no evaluation yet",
\* at most one Result is applied per position: whenever a Result for a
\* position is applied, no Result for that position was applied before.
OneResultPerPosition ==
    [][\A p \in Procs, mov \in Moves :
          ProcessDone(p, mov) => cur[p] \notin evaluated]_vars

\* C12: when should_process returns an error or a process future resolves
\* with an error, the position is counted completed for that processor, no
\* position is sent to any channel, the knowledge is unchanged, the
\* processor's receive is rearmed and the loop goes on.
ErrorsCountAsCompleted ==
    [][\A p \in Procs :
          (RecvPos(p, TRUE) \/ ProcessFailed(p)) =>
             /\ completed' = [completed EXCEPT ![p] = completed[p] + 1]
             /\ total' = total
             /\ \A q \in Procs : chan'[q] = chan[q] \/ (q = p /\ chan'[q] = Tail(chan[q]))
             /\ evaluated' = evaluated
             /\ UNCHANGED <<positions, index, variations, main>>
             /\ pstate'[p] = "waiting"
             /\ pc' = "loop"]_vars

\* Witness of C12: a processor completed the root without any evaluation
\* being recorded (should_process or process failed) and waits again.
FailedAndRearmed ==
    /\ pc = "loop" /\ evaluated = {}
    /\ \E p \in Procs : completed[p] = 1 /\ total[p] = 1 /\ pstate[p] = "waiting"

\* C13: each non-terminal successor produced by applying a Result is sent
\* exactly once to every processor's channel, the producer's included, and
\* every processor's total grows by exactly one.
SuccessorsSentToAll ==
    [][\A p \in Procs, mov \in Moves :
          (/\ ProcessDone(p, mov)
           /\ Play(cur[p], mov) # Illegal
           /\ Outcome(Play(cur[p], mov)) = None)
          => \A q \in Procs :
                /\ chan'[q] = Append(chan[q], Play(cur[p], mov))
                /\ total'[q] = total[q] + 1]_vars

\* C14: a position whose intrinsic outcome is not None is never in a
\* processor's channel and never the position a processor analyses; with a
\* terminal root nothing is ever sent or received, and dispatch returns.
TerminalNeverScheduled ==
    /\ [](\A p \in Procs :
            /\ \A i \in 1..Len(chan[p]) : Outcome(chan[p][i]) = None
            /\ cur[p] # None => Outcome(cur[p]) = None)
    /\ [](Outcome(PosAt(0)) # None =>
            \A p \in Procs : /\ total[p] = 0 /\ completed[p] = 0
                             /\ chan[p] = <<>>
                             /\ pstate[p] \in {"idle", "waiting"})
    /\ (Outcome(PosAt(0)) # None) ~> (pc = "done")

\* Witness of C14: dispatch on a checkmated root has returned with no
\* position sent.
TerminalRootReturned ==
    /\ pc = "done" /\ Outcome(PosAt(0)) # None
    /\ \A p \in Procs : total[p] = 0 /\ pstate[p] = "waiting"

\* C16: a processor's channel never holds more positions than its capacity,
\* and a send to a full channel does not complete before a position was taken.
ChannelsBounded ==
    /\ [](\A p \in Procs : Len(chan[p]) <= ChannelCapacity)
    /\ [][\A p \in Procs :
            Len(chan[p]) = ChannelCapacity => Len(chan'[p]) <= ChannelCapacity]_vars

\* C17: the knowledge changes only in the step in which the dispatcher
\* applies a Result; receiving a position, a pending process future and a
\* failed one change nothing in it, whatever the other processors do.
KnowledgeChangedOnlyByApply ==
    [][(\/ evaluated' # evaluated
        \/ <<positions, index, variations, main>>' # <<positions, index, variations, main>>)
       => \E p \in Procs, mov \in Moves :
             /\ pstate[p] = "processing" /\ pstate'[p] # "processing"
             /\ evaluated' = evaluated \cup {cur[p]}
             /\ ProcessDone(p, mov)]_vars

\* Witness of C17: a Result has been applied while another processor's
\* process future, on a position still without evaluation, is pending.
AppliedWhileOtherProcessing ==
    /\ evaluated # {}
    /\ \E p \in Procs : pstate[p] = "processing" /\ cur[p] \notin evaluated

\* C18: a processor holds at most one position under analysis; while its
\* process future stays pending nothing is taken from its channel and the
\* future is not replaced; it waits again only when the future resolves, or
\* at once when should_process said no or failed.
OneProcessAtATime ==
    /\ [](\A p \in Procs : pstate[p] = "processing" <=> cur[p] # None)
    /\ [][\A p \in Procs :
            (pstate[p] = "processing" /\ pstate'[p] = "processing") =>
               /\ cur'[p] = cur[p]
               /\ Len(chan'[p]) >= Len(chan[p])
               /\ SubSeq(chan'[p], 1, Len(chan[p])) = chan[p]]_vars
    /\ [][\A p \in Procs :
            (pstate[p] = "processing" /\ pstate'[p] = "waiting") =>
               /\ completed'[p] = completed[p] + 1
               /\ ProcessFailed(p) \/ \E mov \in Moves : ProcessDone(p, mov)]_vars
    /\ [][\A p \in Procs :
            (pstate[p] = "waiting" /\ chan[p] # <<>> /\ chan'[p] = Tail(chan[p])) =>
               \/ pstate'[p] = "processing" /\ cur'[p] = Head(chan[p])
                                            /\ ShouldProcess(Head(chan[p]))
               \/ pstate'[p] = "waiting" /\ completed'[p] = completed[p] + 1]_vars

\* Witness of C18: a position waits in the channel of a processor whose
\* process future is pending.
QueuedBehindProcessing ==
    \E p \in Procs : pstate[p] = "processing" /\ chan[p] # <<>>

\* C19: every heartbeat record has total > 0 and 0 <= completed <= total, so
\* the progress completed * 100 / total is defined and lies in 0..100.
HeartbeatWellDefined ==
    hb => /\ HbTotal > 0
          /\ 0 <= HbCompleted /\ HbCompleted <= HbTotal
          /\ HbProgress \in 0..100

\* Witness of C19: the first tick, right after the root was scheduled.
FirstTick == hb /\ HbCompleted = 0 /\ HbTotal = NumProcessors

\* C15: when applying an engine result fails because the engine's move is
\* illegal in the analysed (non-terminal) position, the knowledge is left as
\* it was: no evaluation recorded, no position or variation added or changed,
\* main kept.
IllegalMoveLeavesKnowledge ==
    [][(ret'.op = "apply" /\ ret'.err = ErrToMove
        /\ \E vidx \in 0..(Len(variations) - 1), eval \in EvalSamples, mov \in Moves :
             \E hm \in 0..Len(variations[vidx + 1].moves) :
                /\ Outcome(PosAt(variations[vidx + 1].positions[hm + 1])) = None
                /\ Play(PosAt(variations[vidx + 1].positions[hm + 1]), mov) = Illegal
                /\ EngineApply(vidx, hm, eval, mov))
       => UNCHANGED <<positions, index, variations, main>>]_vars

\* C20: info() returns the info records in arrival order and Ok(None) at
\* the bestmove, whose move it caches; every later call returns Ok(None)
\* without waiting for engine output and without consuming any.
InfoEndsAtBestMove ==
    /\ [][(InfoCall /\ best = None /\ iret'.err = None) =>
            \E i \in 1..Len(out) :
               /\ \A j \in 1..(i - 1) : out[j].cmd \notin {"info", "bestmove", "eof"}
               /\ out' = SubSeq(out, i + 1, Len(out))
               /\ \/ /\ out[i].cmd = "info"
                     /\ iret' = OkSome(out[i].arg) /\ best' = None
                  \/ /\ out[i].cmd = "bestmove"
                     /\ iret' = OkNone /\ best' = out[i].arg]_vars
    /\ [][(InfoCall /\ best # None) =>
            iret' = OkNone /\ out' = out /\ best' = best]_vars
    /\ [](best # None => ENABLED InfoCall)

\* C27: add_move(v, hm, move) with hm > variations[v].moves.len() fails with
\* the "extending variation after its last move" error, for every variation
\* and every move.
PastTheEndRefused ==
    [][ret'.op = "add_move" =>
          \A vidx \in 0..(Len(variations) - 1), mov \in Moves :
             AddMove(vidx, Len(variations[vidx + 1].moves) + 1, mov)
                => /\ ret'.err = "Extending variation after its last move"
                   /\ KnowledgeUnchanged]_vars

\* Witness of C27: add_move past the end of a variation that has moves was
\* refused.
RefusedPastTheEnd ==
    /\ ret.op = "add_move"
    /\ ret.err = "Extending variation after its last move"
    /\ \E v \in 1..Len(variations) : Len(variations[v].moves) > 0

\* C28: whenever add_move returns an error, positions, the dedup index, the
\* variations and main are what they were before the call.
ErrorLeavesKnowledge ==
    [][(ret'.op = "add_move" /\ ret'.err # None) =>
          /\ positions' = positions /\ index' = index
          /\ variations' = variations /\ main' = main]_vars

\* Witness of C28: add_move refused to extend a variation drawn by
\* repetition, where a legal move leads to a position not yet known.
ConclusionErrorOnNewPosition ==
    /\ ret.op = "add_move" /\ ret.err = ErrConclusion
    /\ \E v \in 1..Len(variations) :
          /\ variations[v].outcome = "Draw"
          /\ \E mov \in Moves :
                /\ Play(PosAt(Last(variations[v].positions)), mov) # Illegal
                /\ Play(PosAt(Last(variations[v].positions)), mov) \notin DOMAIN index

\* C29: when add_move(v, hm, move) appends a move: with hm = moves.len() the
\* move is appended to v itself, v is returned and no variation is added;
\* with hm < moves.len() exactly one variation is pushed, made of v's first hm
\* moves and hm + 1 position indices followed by the move and its successor
\* index, its index is returned, and all existing variations are unchanged.
AppendInPlaceOrBranch ==
    [][(ret'.op = "add_move" /\ variations' # variations) =>
          \A vidx \in 0..(Len(variations) - 1), mov \in Moves :
             \A hm \in 0..Len(variations[vidx + 1].moves) :
                AddMove(vidx, hm, mov) =>
                   LET v == variations[vidx + 1]
                       after == index'[Play(PosAt(v.positions[hm + 1]), mov)]
                   IN  IF hm = Len(v.moves)
                       THEN /\ ret'.vidx = vidx
                            /\ Len(variations') = Len(variations)
                            /\ variations'[vidx + 1].moves = Append(v.moves, mov)
                            /\ variations'[vidx + 1].positions = Append(v.positions, after)
                            /\ \A w \in 1..Len(variations) :
                                  w # vidx + 1 => variations'[w] = variations[w]
                       ELSE /\ Len(variations') = Len(variations) + 1
                            /\ ret'.vidx = Len(variations') - 1
                            /\ variations'[ret'.vidx + 1].moves =
                                  Append(SubSeq(v.moves, 1, hm), mov)
                            /\ variations'[ret'.vidx + 1].positions =
                                  Append(SubSeq(v.positions, 1, hm + 1), after)
                            /\ \A w \in 1..Len(variations) :
                                  variations'[w] = variations[w]]_vars

\* Witness of C29: a variation extended in place to two moves and a branch
\* of it after its first move.
InPlaceThenBranched ==
    /\ Len(variations) = 2
    /\ Len(variations[1].moves) >= 2
    /\ Len(variations[2].moves) = 2
    /\ variations[2].moves[1] = variations[1].moves[1]
    /\ variations[2].positions[2] = variations[1].positions[2]

\* C30: update_mainline(from, to) sets main = to exactly when from = main and
\* to < variations.len(), leaves main as it is otherwise, and never changes
\* positions or variations.
MainlineUpdatedExactlyWhenGuarded ==
    [][ret'.op = "update_mainline" =>
          \A from \in 0..Len(variations), to \in 0..Len(variations) :
             UpdateMainline(from, to) =>
                /\ main' = IF from = main /\ to < Len(variations) THEN to ELSE main
                /\ positions' = positions /\ variations' = variations
                /\ index' = index]_vars

\* Witness of C30: update_mainline was called with two variations and main
\* is the last of them.
MainIsLastVariation ==
    /\ ret.op = "update_mainline"
    /\ Len(variations) = 2 /\ main = 1

\* C22: Score::cmp is a total order on the scores, Mate(0) included:
\* cmp(a, b) is the reverse of cmp(b, a), equal exactly for equal scores,
\* and transitive.
ScoreCmpTotalOrder ==
    ret.op = "cmp" =>
       /\ ret.ord = Reverse(Cmp(ret.b, ret.a))
       /\ ret.ord = Equal <=> ret.a = ret.b
       /\ \A c \in Scores :
             (ret.ord = Greater /\ Cmp(ret.b, c) = Greater) => Cmp(ret.a, c) = Greater

\* C23: cmp orders Mate(1) > Mate(5) > Cp(9999) > Cp(0) > Cp(-9999) >
\* Mate(-5) > Mate(-1): for each adjacent pair x, y of the chain cmp(x, y) is
\* Greater and cmp(y, x) is Less.
SampleChainOrdered ==
    LET chain == <<Mate(1), Mate(5), Cp(9999), Cp(0), Cp(-9999), Mate(-5), Mate(-1)>>
    IN  ret.op = "cmp" =>
           \A i \in 1..(Len(chain) - 1) :
              /\ (ret.a = chain[i] /\ ret.b = chain[i + 1]) => ret.ord = Greater
              /\ (ret.a = chain[i + 1] /\ ret.b = chain[i]) => ret.ord = Less

\* C24: cmp follows the data model: a positive mate is above every Cp and
\* every negative mate, a Cp above every negative mate, and never the other
\* way round; among positive mates the smaller n is greater, among Cp and
\* among negative mates the larger n is greater.
ClassOrderRespected ==
    LET a == ret.a
        b == ret.b
        posmate(s) == s.tag = "Mate" /\ s.n > 0
        negmate(s) == s.tag = "Mate" /\ s.n < 0
        cp(s) == s.tag = "Cp"
        class(s) == IF posmate(s) THEN 2 ELSE IF cp(s) THEN 1 ELSE 0
    IN  (ret.op = "cmp" /\ a # Mate(0) /\ b # Mate(0)) =>
           /\ class(a) > class(b) => ret.ord = Greater
           /\ class(a) < class(b) => ret.ord # Greater
           /\ (posmate(a) /\ posmate(b)) => (ret.ord = Greater <=> a.n < b.n)
           /\ (cp(a) /\ cp(b)) => (ret.ord = Greater <=> a.n > b.n)
           /\ (negmate(a) /\ negmate(b)) => (ret.ord = Greater <=> a.n > b.n)

\* C25: the evaluation persisted for an analysed position is from White's
\* perspective: the analysis pushed by process() carries the score the
\* engine reported last when White is to move in the analysed position (the
\* one after the item's hm halfmoves) and the negated score when Black is
\* to move, and apply_results stores that evaluation on that position.
EvalFromWhitePerspective ==
    [][/\ (results' # results /\ results' # <<>>) =>
            LET item == task.item[1]
                pos == PosAt(variations[item.variation + 1].positions[item.hm + 1])
                reported == task.eval[1]
            IN Last(results').eval =
                  IF Turn(pos) = White THEN reported
                  ELSE [tag |-> reported.tag, n |-> -reported.n]
       /\ (task.st = "apply" /\ task'.st = "enqueue" /\ results # <<>>) =>
            LET res == results[1]
                posidx == variations[res.variation + 1].positions[res.hm + 1]
            IN positions'[posidx + 1].eval = Some(res.eval)
      ]_vars

\* C26: every Scheduled item handed to enqueue refers to a variation whose
\* outcome is None, and the engine is never started on the end of a
\* concluded variation.
EnqueuedNeverConcluded ==
    [][/\ (task.st = "enqueue" /\ task'.st = "idle") =>
            \A i \in 1..Len(Handed) :
                variations[Handed[i].variation + 1].outcome = None
       /\ (task.st = "idle" /\ task'.st = "running") =>
            LET next == Head(queue)
                variation == variations[next.variation + 1]
            IN ~(variation.outcome # None /\ next.hm = Len(variation.moves))
      ]_vars

\* C21: every go written to the engine's stdin is directly preceded by the
\* position command of the same search, and commands are written only when
\* the bestmove of every earlier go has been consumed: the engine is not
\* searching and no bestmove line is unread.
CommandsInSync ==
    [][stdin' # stdin =>
         /\ \A i \in 1..Len(stdin') :
               stdin'[i].cmd = "go" => (i > 1 /\ stdin'[i - 1].cmd = "position")
         /\ stdin'[Len(stdin') - 1] =
               [cmd |-> "position", fen |-> task'.item[1].fen,
                line |-> task'.item[1].moves]
         /\ busy = 0
         /\ \A i \in 1..Len(out) : out[i].cmd # "bestmove"
      ]_vars

\* C31: a successful apply of an engine result for (variation v, halfmove
\* hm) with move m returns the item (idx, hm + 1) where variation idx plays
\* m at halfmove hm; if v was the mainline, main is idx afterwards, and
\* otherwise main is unchanged.
MainlineFollowsEngineMove ==
    [][(ret'.op = "apply" /\ ret'.err = None) =>
          \A vidx \in 0..(Len(variations) - 1), eval \in EvalSamples, mov \in Moves :
             \A hm \in 0..Len(variations[vidx + 1].moves) :
                EngineApply(vidx, hm, eval, mov) =>
                   /\ ret'.hm = hm + 1
                   /\ Get(variations'[ret'.vidx + 1].moves, hm) = mov
                   /\ main' = IF vidx = main THEN ret'.vidx ELSE main]_vars

\* C35: no two distinct entries of variations hold the same move sequence.
VariationsUnique ==
    \A v, w \in 1..Len(variations) :
        v # w => variations[v].moves # variations[w].moves

\* C36: Knowledge is append-only: in every step positions and variations
\* keep their earlier entries, the Position at an existing index is the
\* same, and an existing variation keeps its moves and position indices as
\* a prefix of the new ones; so the position denoted by an existing
\* (variation, halfmove) pair never changes.
KnowledgeAppendOnly ==
    [][/\ Len(positions') >= Len(positions)
       /\ Len(variations') >= Len(variations)
       /\ \A i \in 1..Len(positions) : positions'[i].pos = positions[i].pos
       /\ \A v \in 1..Len(variations) :
             /\ Len(variations'[v].moves) >= Len(variations[v].moves)
             /\ SubSeq(variations'[v].moves, 1, Len(variations[v].moves))
                   = variations[v].moves
             /\ SubSeq(variations'[v].positions, 1, Len(variations[v].positions))
                   = variations[v].positions
             /\ \A hm \in 0..Len(variations[v].moves) :
                   positions'[variations'[v].positions[hm + 1] + 1].pos
                      = PosAt(variations[v].positions[hm + 1])]_vars

\* Witness of C36: both variations have grown to two moves and four
\* positions are stored, one of them evaluated.
GrownKnowledge ==
    /\ Len(variations) = 2
    /\ Len(variations[1].moves) >= 2 /\ Len(variations[2].moves) >= 2
    /\ Len(positions) = 4
    /\ \E i \in 1..Len(positions) : positions[i].eval # NoEval

\* C37: for every processor, completed <= total, and total - completed is
\* the number of positions waiting in its channel plus one if it holds a
\* received position not yet counted completed: no sent position is lost
\* without being counted.
PendingAccounted ==
    \A p \in Procs :
        /\ completed[p] <= total[p]
        /\ total[p] - completed[p] =
              Len(chan[p]) + (IF pstate[p] = "processing" THEN 1 ELSE 0)

\* C38: Score::rev is exact negation over the whole range: every call
\* returns the score with the mathematically negated number, and rev of the
\* result gives the score back.
RevExactNegation ==
    ret.op = "rev" =>
       /\ ret.res = <<[tag |-> ret.a.tag, n |-> 0 - ret.a.n]>>
       /\ ret.back = <<ret.a>>

\* C32: during a search the move and the score kept are those of the last
\* info record surfaced; at bestmove the search gives that record's first pv
\* move with its score (as reported or negated), and it fails, giving no
\* analysis, exactly when no info record was surfaced.
LastInfoWins ==
    [][task.st = "running" =>
         /\ (iret' # iret /\ iret'.err = None /\ iret'.val # <<>>) =>
               /\ task'.mov = <<iret'.val[1].line[1]>>
               /\ task'.eval = <<iret'.val[1].score>>
               /\ results' = results
         /\ (task'.st = "running" /\ (iret' = iret \/ iret'.val = <<>>)) =>
               (task'.mov = task.mov /\ task'.eval = task.eval)
         /\ (task'.st = "apply" /\ iret'.err = None) =>
               IF task.mov = <<>>
               THEN results' = results /\ task.eval = <<>>
               ELSE /\ Len(results') = Len(results) + 1
                    /\ Last(results').mov = task.mov[1]
                    /\ Last(results').eval \in
                          {task.eval[1],
                           [tag |-> task.eval[1].tag, n |-> 0 - task.eval[1].n]}
      ]_vars

\* Witness of C32: a search ended at its bestmove and gave the analysis
\* with the move b and a mate score of a surfaced info.
SearchGaveLastInfo ==
    /\ task.st = "apply"
    /\ iret.err = None /\ iret.val = <<>>
    /\ results # <<>>
    /\ results[1].mov = "b"
    /\ results[1].eval.tag = "Mate"

\* C33: an info line is surfaced if and only if, before any string section,
\* it carries `score cp N` or `score mate N` and a pv with at least one
\* move; the surfaced record has such a score and such a first pv move.
SurfacedIffScoreAndPv ==
    ret.op = "parse" =>
       LET strs == {k \in 1..(Len(ret.line) - 1) : ret.line[k] = "string"}
           end == IF strs = {} THEN Len(ret.line)
                  ELSE (CHOOSE k \in strs : \A j \in strs : k <= j) - 1
           scores == {i \in 1..(end - 2) :
                         /\ ret.line[i] = "score"
                         /\ ret.line[i + 1] \in {"cp", "mate"}
                         /\ ret.line[i + 2] \in {"n7", "n40000"}}
           pvs == {i \in 1..(end - 1) :
                      ret.line[i] = "pv" /\ ret.line[i + 1] \in Moves}
       IN  /\ ret.msg # <<>> <=> (scores # {} /\ pvs # {})
           /\ ret.msg # <<>> =>
                 /\ \E i \in scores :
                       /\ ret.msg[1].score.tag =
                             (IF ret.line[i + 1] = "cp" THEN "Cp" ELSE "Mate")
                       /\ ret.msg[1].score.n =
                             (IF ret.line[i + 2] = "n7" THEN 7 ELSE 40000)
                 /\ \E i \in pvs : ret.msg[1].line[1] = ret.line[i + 1]

\* C40: the text written for Cp(n) determines n: no other centipawn value is
\* written as the same text, the text of a negative value starts with a
\* minus sign, and its hundredths part has two digits.
EvalTextDeterminesCp ==
    (ret.op = "fmt" /\ ret.a.tag = "Cp") =>
       /\ ret.text # <<>>
       /\ \A n \in (0 - MaxCp)..MaxCp :
             n # ret.a.n => <<Display(Cp(n))>> # ret.text
       /\ ret.a.n < 0 => ret.text[1].int.neg
       /\ ret.text[1].frac.len = 2

\* The number of parentheses open after the first n tokens of a movetext:
\* the "(" among them less the ")".
RECURSIVE OpenAfter(_, _)
OpenAfter(text, n) ==
    IF n = 0 THEN 0
    ELSE OpenAfter(text, n - 1)
           + (IF text[n].tok = "(" THEN 1 ELSE IF text[n].tok = ")" THEN 0 - 1 ELSE 0)

\* C34: in the movetext written the parentheses are balanced: no ")" is
\* written without a "(" open before it, so the mainline is not closed by a
\* parenthesis at the top level, and when the result token is written every
\* "(" has been closed.
ParenthesesBalanced ==
    /\ \A n \in 0..Len(pgn.text) : OpenAfter(pgn.text, n) >= 0
    /\ pgn.phase = "written" => OpenAfter(pgn.text, Len(pgn.text) - 1) = 0

\* C39: PGN generation terminates: once the Pgn is built, the cardinal-path
\* computation and the movetext walk empty their stacks and the result
\* token is written.
PgnTerminates == (pgn.phase \in {"pathes", "moves"}) ~> (pgn.phase = "written")

\* The PGN of a Knowledge with the cycle R -b-> B -c-> R after its root S
\* and a transposition is written to its result token.
PgnWritten ==
    /\ pgn.phase = "written"
    /\ pgn.root = "S"
    /\ {"R", "B"} \subseteq DOMAIN pgn.data
    /\ \E i \in 1..Len(pgn.data["R"].moves) : pgn.data["R"].moves[i].pos = "B"
    /\ \E i \in 1..Len(pgn.data["B"].moves) : pgn.data["B"].moves[i].pos = "R"
    /\ pgn.data["B"].path.parent = "R"
    /\ \E i \in 1..Len(pgn.text) :
          pgn.text[i].tok = "move" /\ pgn.text[i].transposes

==============================================================================
